---- MODULE Spec2Model ----
(***************************************************************************)
(* Brain Dump Processor (workspace/skills/life-os/scripts/brain_dump.py).  *)
(*                                                                         *)
(* Text is modelled as a sequence of one-character strings, so that        *)
(* splitting, trimming, lower-casing, substring tests, regular-expression  *)
(* matching and joining are computed character by character.  Characters   *)
(* that the lexer does not take are written by name: "BULLET" is U+2022,   *)
(* "BACKTICK" is the grave accent, "MEMO", "LABEL"                         *)
(* and "ZAP" are the emoji of the report headings.                         *)
(***************************************************************************)
EXTENDS Integers, Sequences, FiniteSets

\* ------------------------------------------------------------------------
\* Bounds of the model
\* ------------------------------------------------------------------------

\* longest input text of the function-level specification, in tokens
MaxTokens == 3

\* number of clock ticks (minutes) a run of the script-level specification sees
MaxClock == 2

\* ------------------------------------------------------------------------
\* Characters and elementary string operations
\* ------------------------------------------------------------------------

Bullet == "BULLET"

Whitespace == {" ", "\t", "\n", "\r", "\f"}

Separators == {"\n", Bullet, "-"}

UpperChars == <<"A", "B", "C", "D", "E", "F", "G", "H", "I", "J", "K", "L", "M", "N", "O", "P", "Q", "R", "S", "T", "U", "V", "W", "X", "Y", "Z">>

LowerChars == <<"a", "b", "c", "d", "e", "f", "g", "h", "i", "j", "k", "l", "m", "n", "o", "p", "q", "r", "s", "t", "u", "v", "w", "x", "y", "z">>

MinOf(S) == CHOOSE x \in S : \A y \in S : x <= y

MaxOf(S) == CHOOSE x \in S : \A y \in S : x >= y

InSeq(x, s) == \E i \in 1..Len(s) : s[i] = x

LowerChar(c) ==
  IF \E i \in 1..Len(UpperChars) : UpperChars[i] = c
  THEN LowerChars[CHOOSE i \in 1..Len(UpperChars) : UpperChars[i] = c]
  ELSE c

Lower(s) == [i \in 1..Len(s) |-> LowerChar(s[i])]

Contains(s, w) == \E i \in 0..(Len(s) - Len(w)) : SubSeq(s, i + 1, i + Len(w)) = w

Strip(s) ==
  LET keep == {i \in 1..Len(s) : s[i] \notin Whitespace}
  IN  IF keep = {} THEN <<>> ELSE SubSeq(s, MinOf(keep), MaxOf(keep))

RECURSIVE Join(_, _)
Join(lines, sep) ==
  IF Len(lines) = 0 THEN <<>>
  ELSE IF Len(lines) = 1 THEN lines[1]
  ELSE lines[1] \o sep \o Join(Tail(lines), sep)

RECURSIVE Flatten(_)
Flatten(seqs) == IF Len(seqs) = 0 THEN <<>> ELSE seqs[1] \o Flatten(Tail(seqs))

\* ------------------------------------------------------------------------
\* categorize_thoughts
\* ------------------------------------------------------------------------

CATEGORIES_ByPriority == <<"projects", "questions", "ideas", "resources", "random">>

CATEGORIES == <<"ideas", "questions", "projects", "resources", "random">>

CategorySet == {CATEGORIES[i] : i \in 1..Len(CATEGORIES)}

EmptyCategorized == [cat \in CategorySet |-> <<>>]

ProjectWords == {<<"b", "u", "i", "l", "d">>, <<"c", "r", "e", "a", "t", "e">>, <<"a", "p", "p">>, <<"w", "e", "b", "s", "i", "t", "e">>, <<"l", "a", "u", "n", "c", "h">>, <<"m", "a", "k", "e">>}

QuestionWords == {<<"h", "o", "w">>, <<"w", "h", "y">>, <<"w", "h", "a", "t">>, <<"w", "h", "e", "n">>, <<"s", "h", "o", "u", "l", "d">>}

IdeaWords == {<<"i", "d", "e", "a">>, <<"t", "h", "o", "u", "g", "h", "t">>, <<"m", "a", "y", "b", "e">>, <<"p", "e", "r", "h", "a", "p", "s">>, <<"c", "o", "n", "s", "i", "d", "e", "r">>}

ResourceWords == {<<"l", "i", "n", "k">>, <<"b", "o", "o", "k">>, <<"t", "o", "o", "l">>, <<"s", "i", "t", "e">>, <<"u", "r", "l">>, <<"r", "e", "a", "d">>}

HasAny(lower, words) == \E w \in words : Contains(lower, w)

RECURSIVE ReSplitNoHyphen(_)
ReSplitNoHyphen(s) ==
  LET seps == {i \in 1..Len(s) : s[i] \in {"\n", Bullet}}
  IN  IF seps = {} THEN <<s>>
      ELSE LET i == MinOf(seps)
               after == {j \in i..Len(s) : s[j] \notin {"\n", Bullet}}
               j == IF after = {} THEN Len(s) + 1 ELSE MinOf(after)
           IN  <<SubSeq(s, 1, i - 1)>> \o ReSplitNoHyphen(SubSeq(s, j, Len(s)))

\* re.split(r'[\n<bullet>\-]+', text): the pieces between maximal runs of
\* separators, the empty pieces at either end included
RECURSIVE ReSplit(_)
ReSplit(s) ==
  LET seps == {i \in 1..Len(s) : s[i] \in Separators}
  IN  IF seps = {} THEN <<s>>
      ELSE LET i == MinOf(seps)
               after == {j \in i..Len(s) : s[j] \notin Separators}
               j == IF after = {} THEN Len(s) + 1 ELSE MinOf(after)
           IN  <<SubSeq(s, 1, i - 1)>> \o ReSplit(SubSeq(s, j, Len(s)))

ClassifyQuestionsFirst(thought) ==
  LET lower == Lower(thought)
  IN  IF Contains(thought, <<"?">>) \/ HasAny(lower, QuestionWords) THEN "questions"
      ELSE IF HasAny(lower, ProjectWords) THEN "projects"
      ELSE IF HasAny(lower, IdeaWords) THEN "ideas"
      ELSE IF HasAny(lower, ResourceWords) THEN "resources"
      ELSE "random"

\* the chain of tests of the loop body: the first rule that matches
Classify(thought) ==
  LET lower == Lower(thought)
  IN  IF HasAny(lower, ProjectWords) THEN "projects"
      ELSE IF Contains(thought, <<"?">>) \/ HasAny(lower, QuestionWords) THEN "questions"
      ELSE IF HasAny(lower, IdeaWords) THEN "ideas"
      ELSE IF HasAny(lower, ResourceWords) THEN "resources"
      ELSE "random"

\* the loop body without the `continue` of the projects branch: a project
\* fragment goes on to the tests that follow
AddThoughtFallThrough(categorized, piece) ==
  LET thought == Strip(piece)
      lower == Lower(thought)
      isProject == HasAny(lower, ProjectWords)
      first == IF isProject /\ ~InSeq(thought, categorized["projects"])
               THEN [categorized EXCEPT !["projects"] = Append(@, thought)]
               ELSE categorized
      rest == IF Contains(thought, <<"?">>) \/ HasAny(lower, QuestionWords) THEN "questions"
              ELSE IF HasAny(lower, IdeaWords) THEN "ideas"
              ELSE IF HasAny(lower, ResourceWords) THEN "resources"
              ELSE "random"
  IN  IF thought = <<>> THEN categorized
      ELSE IF rest # "random" /\ InSeq(thought, first[rest]) THEN first
      ELSE [first EXCEPT ![rest] = Append(@, thought)]

\* the loop body: trim, skip the empty piece, append to the list of the
\* first matching category; the four keyword branches test membership
\* before appending, the fallback branch appends unconditionally
AddThought(categorized, piece) ==
  LET thought == Strip(piece)
      cat == Classify(thought)
  IN  IF thought = <<>> THEN categorized
      ELSE IF cat # "random" /\ InSeq(thought, categorized[cat]) THEN categorized
      ELSE [categorized EXCEPT ![cat] = Append(@, thought)]

RECURSIVE CategorizeLoop(_, _)
CategorizeLoop(thoughts, categorized) ==
  IF Len(thoughts) = 0 THEN categorized
  ELSE CategorizeLoop(Tail(thoughts), AddThought(categorized, Head(thoughts)))

categorize_thoughts(t) == CategorizeLoop(ReSplit(t), EmptyCategorized)

\* ------------------------------------------------------------------------
\* extract_action_items
\* ------------------------------------------------------------------------

\* the alternatives of the two patterns, in the order the patterns list them
KeywordsA == <<<<"n", "e", "e", "d", " ", "t", "o">>, <<"s", "h", "o", "u", "l", "d">>, <<"m", "u", "s", "t">>, <<"h", "a", "v", "e", " ", "t", "o">>, <<"t", "o", "d", "o">>, <<"t", "a", "s", "k">>>>

KeywordsB == <<<<"a", "c", "t", "i", "o", "n">>, <<"n", "e", "x", "t", " ", "s", "t", "e", "p">>>>

action_patterns == <<KeywordsA, KeywordsB>>

\* (?:k1|k2|...) under re.IGNORECASE at position i of the lower-cased text:
\* the position of the last character of the first alternative that matches, or 0
KeywordEnd(kws, low, i) ==
  LET hits == {n \in 1..Len(kws) :
                 /\ i + Len(kws[n]) - 1 <= Len(low)
                 /\ SubSeq(low, i, i + Len(kws[n]) - 1) = kws[n]}
  IN  IF hits = {} THEN 0 ELSE i + Len(kws[MinOf(hits)]) - 1

\* \s*(.+?) after position base: the greedy whitespace run gives characters
\* back until the group can take one character other than a newline; the
\* position of that character, or 0
CaptureStartAfter(t, base) ==
  LET run == MaxOf({m \in 0..(Len(t) - base) : \A x \in 1..m : t[base + x] \in Whitespace})
      ok == {s \in 0..run : base + s + 1 <= Len(t) /\ t[base + s + 1] # "\n"}
  IN  IF ok = {} THEN 0 ELSE base + MaxOf(ok) + 1

\* [,:]?\s*(.+?) after a keyword that ends at k: the optional punctuation is
\* tried taken first, then skipped
CaptureStart(t, k) ==
  LET taken == IF k + 1 <= Len(t) /\ t[k + 1] \in {",", ":"}
               THEN CaptureStartAfter(t, k + 1) ELSE 0
  IN  IF taken # 0 THEN taken ELSE CaptureStartAfter(t, k)

\* (.+?)(?:[.\n]|$) from position p: the lazy group stops before the first
\* period or newline that follows its first character, or at the end
CaptureEnd(t, p) == MinOf({e \in p..Len(t) : e = Len(t) \/ t[e + 1] \in {".", "\n"}})

\* the scan of re.findall: leftmost match from position i, then on from the
\* end of that match
RECURSIVE FindAll(_, _, _)
FindAll(kws, t, i) ==
  IF i > Len(t) THEN <<>>
  ELSE LET k == KeywordEnd(kws, Lower(t), i)
           p == IF k = 0 THEN 0 ELSE CaptureStart(t, k)
       IN  IF p = 0 THEN FindAll(kws, t, i + 1)
           ELSE LET e == CaptureEnd(t, p)
                    stop == IF e < Len(t) THEN e + 1 ELSE e
                IN  <<[start |-> i, from |-> p, to |-> e, stop |-> stop]>>
                      \o FindAll(kws, t, stop + 1)

\* the list re.findall returns: the text of group 1 of every match
Captures(kws, t) ==
  LET ms == FindAll(kws, t, 1)
  IN  [n \in 1..Len(ms) |-> SubSeq(t, ms[n].from, ms[n].to)]

LongEnough(m) == Len(m) > 3

\* [m.strip() for m in matches if len(m.strip()) > 3]
KeepActions(matches) ==
  SelectSeq([n \in 1..Len(matches) |-> Strip(matches[n])], LongEnough)

AtLeastThree(m) == Len(m) >= 3

extract_action_items_keep3(t) ==
  Flatten([n \in 1..Len(action_patterns) |->
             SelectSeq([j \in 1..Len(Captures(action_patterns[n], t)) |->
                          Strip(Captures(action_patterns[n], t)[j])], AtLeastThree)])

extract_action_items(t) ==
  Flatten([n \in 1..Len(action_patterns) |-> KeepActions(Captures(action_patterns[n], t))])

\* ------------------------------------------------------------------------
\* generate_dump_entry
\* ------------------------------------------------------------------------

Digits == <<"0", "1", "2", "3", "4", "5", "6", "7", "8", "9">>

Fmt2(n) == <<Digits[(n \div 10) + 1], Digits[(n % 10) + 1]>>

\* the clock counts minutes from 2026-01-01 00:00 local time
DatePart(t) == <<"2", "0", "2", "6", "-", "0", "1", "-">> \o Fmt2(1 + (t \div 1440))

HourOf(t) == (t % 1440) \div 60

MinuteOf(t) == t % 60

\* strftime('%Y-%m-%d %H:%M')
StrftimeStamp(t) == DatePart(t) \o <<" ">> \o Fmt2(HourOf(t)) \o <<":">> \o Fmt2(MinuteOf(t))

StrftimeFileHourOnly(t) == DatePart(t) \o <<"-">> \o Fmt2(HourOf(t)) \o <<".", "m", "d">>

\* strftime('%Y-%m-%d-%H%M') followed by ".md"
StrftimeFile(t) == DatePart(t) \o <<"-">> \o Fmt2(HourOf(t)) \o Fmt2(MinuteOf(t)) \o <<".", "m", "d">>

\* str.title() of a one-word lower-case name
Title(s) ==
  <<UpperChars[CHOOSE i \in 1..Len(LowerChars) : LowerChars[i] = s[1]]>> \o SubSeq(s, 2, Len(s))

CategoryName(cat) ==
  CASE cat = "ideas" -> <<"i", "d", "e", "a", "s">>
    [] cat = "questions" -> <<"q", "u", "e", "s", "t", "i", "o", "n", "s">>
    [] cat = "projects" -> <<"p", "r", "o", "j", "e", "c", "t", "s">>
    [] cat = "resources" -> <<"r", "e", "s", "o", "u", "r", "c", "e", "s">>
    [] cat = "random" -> <<"r", "a", "n", "d", "o", "m">>

\* the lines one category contributes: nothing for an empty list
CategoryLines(cat, items) ==
  IF Len(items) = 0 THEN <<>>
  ELSE <<<<"#", "#", "#", " ">> \o Title(CategoryName(cat))>>
         \o [n \in 1..Len(items) |-> <<"-", " ">> \o items[n]]
         \o << <<>> >>

ActionLines(acts) ==
  IF Len(acts) = 0 THEN <<>>
  ELSE << <<"#", "#", " ", "ZAP", " ", "P", "o", "t", "e", "n", "t", "i", "a", "l", " ", "A", "c", "t", "i", "o", "n", " ", "I", "t", "e", "m", "s">>, <<>> >>
         \o [n \in 1..Len(acts) |-> <<"-", " ", "[", " ", "]", " ">> \o acts[n]]
         \o << <<>> >>

DumpLinesStripped(t, categorized, acts, today) ==
  << <<"#", " ", "B", "r", "a", "i", "n", " ", "D", "u", "m", "p", ":", " ">> \o StrftimeStamp(today), <<>>,
     <<"#", "#", " ", "MEMO", " ", "R", "a", "w", " ", "T", "h", "o", "u", "g", "h", "t", "s">>, <<>>,
     <<"BACKTICK", "BACKTICK", "BACKTICK">>, Strip(t), <<"BACKTICK", "BACKTICK", "BACKTICK">>, <<>>,
     <<"#", "#", " ", "LABEL", " ", "C", "a", "t", "e", "g", "o", "r", "i", "z", "e", "d">>, <<>> >>
  \o Flatten([i \in 1..Len(CATEGORIES) |-> CategoryLines(CATEGORIES[i], categorized[CATEGORIES[i]])])
  \o ActionLines(acts)
  \o << <<"-", "-", "-">>, <<>>, <<"*", "P", "r", "o", "c", "e", "s", "s", "e", "d", ":", " ">> \o StrftimeStamp(today) \o <<"*">> >>

DumpLines(t, categorized, acts, today) ==
  << <<"#", " ", "B", "r", "a", "i", "n", " ", "D", "u", "m", "p", ":", " ">> \o StrftimeStamp(today), <<>>,
     <<"#", "#", " ", "MEMO", " ", "R", "a", "w", " ", "T", "h", "o", "u", "g", "h", "t", "s">>, <<>>,
     <<"BACKTICK", "BACKTICK", "BACKTICK">>, t, <<"BACKTICK", "BACKTICK", "BACKTICK">>, <<>>,
     <<"#", "#", " ", "LABEL", " ", "C", "a", "t", "e", "g", "o", "r", "i", "z", "e", "d">>, <<>> >>
  \o Flatten([i \in 1..Len(CATEGORIES) |-> CategoryLines(CATEGORIES[i], categorized[CATEGORIES[i]])])
  \o ActionLines(acts)
  \o << <<"-", "-", "-">>, <<>>, <<"*", "P", "r", "o", "c", "e", "s", "s", "e", "d", ":", " ">> \o StrftimeStamp(today) \o <<"*">> >>

generate_dump_entry(t, categorized, acts, today) ==
  Join(DumpLines(t, categorized, acts, today), <<"\n">>)

\* ------------------------------------------------------------------------
\* Inputs
\* ------------------------------------------------------------------------

Tokens ==
  { <<"\n">>, <<"-">>, <<Bullet>>, <<" ">>, <<"?">>, <<".">>,
    <<"b", "u", "i", "l", "d">>, <<"S", "h", "o", "u", "l", "d">>, <<"i", "d", "e", "a">>, <<"w", "a", "l", "k">>, <<"a", "c", "t", "i", "o", "n">>, <<"BACKTICK", "BACKTICK", "BACKTICK">> }

RECURSIVE TokenTexts(_)
TokenTexts(n) ==
  IF n = 0 THEN {<<>>}
  ELSE LET shorter == TokenTexts(n - 1)
       IN  shorter \cup {s \o tok : s \in shorter, tok \in Tokens}

ExampleActions == <<"I", " ", "n", "e", "e", "d", " ", "t", "o", " ", "c", "a", "l", "l", " ", "B", "o", "b", ".", " ", "I", " ", "s", "h", "o", "u", "l", "d", " ", "e", "m", "a", "i", "l", " ", "A", "l", "i", "c", "e", ".">>

ExamplePriority == <<"s", "h", "o", "u", "l", "d", " ", "I", " ", "b", "u", "i", "l", "d", " ", "a", "n", " ", "a", "p", "p", "?">>

ExampleRandom == <<"w", "e", "n", "t", " ", "f", "o", "r", " ", "a", " ", "w", "a", "l", "k">>

ExampleTwice == <<"i", "d", "e", "a", ":", " ", "d", "o", " ", "X", "\n", "i", "d", "e", "a", ":", " ", "d", "o", " ", "X">>

ExampleRepeatedAction == <<"t", "o", "d", "o", ":", " ", "w", "a", "l", "k", " ", "f", "a", "r", "\n", "n", "e", "x", "t", " ", "s", "t", "e", "p", " ", "w", "a", "l", "k", " ", "f", "a", "r", "\n", "T", "O", "D", "O", " ", "w", "a", "l", "k", " ", "f", "a", "r", ".">>

ExampleBullets == <<"BULLET", " ", "R", "e", "a", "d", " ", "a", " ", "B", "O", "O", "K", " ", "BULLET", "-", " ", "\n", "BULLET", "w", "a", "l", "k", ",", " ", "t", "h", "e", "n", " ", "r", "e", "s", "t", "BULLET">>

ExamplePunctuation == <<"m", "u", "s", "t", ":", " ", "\n", " ", "a", "c", "t", ".", "t", "a", "s", "k", ",", "g", "o", " ", "o", "n", " ", "n", "o", "w", ".", "t", "o", "d", "o", ":", "\n", "a", "c", "t", "i", "o", "n", " ", ",", " ", "w", "a", "i", "t", " ", "h", "e", "r", "e">>

ExampleReport == <<"m", "a", "y", "b", "e", " ", "l", "a", "t", "e", "r", "\n", "S", "h", "o", "u", "l", "d", " ", "b", "u", "i", "l", "d", "?", "\n", "b", "u", "i", "l", "d", " ", "i", "t", "-", "t", "o", "d", "o", ":", " ", "w", "a", "l", "k", " ", "f", "a", "r", "\n">>

Examples ==
  {ExampleActions, ExamplePriority, ExampleRandom, ExampleTwice, ExampleRepeatedAction,
   ExampleBullets, ExamplePunctuation, ExampleReport}

\* the texts the function-level specification applies the functions to
Inputs == TokenTexts(MaxTokens) \cup Examples

\* the texts a run of the script may read
MainInputs == { <<>>, <<" ", "\n">>, <<"w", "a", "l", "k">>, <<"S", "h", "o", "u", "l", "d", " ", "b", "u", "i", "l", "d", "?", "\n", "t", "o", "d", "o", ":", " ", "w", "a", "l", "k", " ", "f", "a", "r">> }

\* the two invocations of the script
Procs == {"p1", "p2"}

\* the first clock reading: 2026-01-01 23:58
ClockStart == 1438

\* ------------------------------------------------------------------------
\* State
\* ------------------------------------------------------------------------

VARIABLES
  now,          \* the local clock, in minutes
  pc,           \* where each invocation of main stands
  text,         \* main: text
  categorized,  \* main: categorized
  actions,      \* main: actions
  entry,        \* main: entry
  today,        \* main: today, the clock reading the file name is made of
  filename,     \* main: filename (the empty text before it is computed)
  dirExists,    \* whether MEMORY_DIR/brain-dumps exists
  files,        \* the files of MEMORY_DIR/brain-dumps: name -> content
  stdout,       \* what each invocation has printed
  startTime,    \* the clock reading when each invocation started
  trace,        \* the steps each invocation has taken
  fnText,       \* function level: the argument
  fnCalls,      \* function level: the functions applied so far
  fnCategorized,\* function level: result of categorize_thoughts
  fnActions,    \* function level: result of extract_action_items
  fnEntry       \* function level: result of generate_dump_entry

mainVars == <<pc, text, categorized, actions, entry, today, filename, dirExists,
              files, stdout, startTime, trace>>

fnVars == <<fnText, fnCalls, fnCategorized, fnActions, fnEntry>>

vars == <<now, mainVars, fnVars>>

MainStart ==
  /\ now = ClockStart
  /\ pc = [p \in Procs |-> "start"]
  /\ text = [p \in Procs |-> <<>>]
  /\ categorized = [p \in Procs |-> EmptyCategorized]
  /\ actions = [p \in Procs |-> <<>>]
  /\ entry = [p \in Procs |-> <<>>]
  /\ today = [p \in Procs |-> -1]
  /\ filename = [p \in Procs |-> <<>>]
  /\ dirExists = FALSE
  /\ files = <<>>
  /\ stdout = [p \in Procs |-> <<>>]
  /\ startTime = [p \in Procs |-> -1]
  /\ trace = [p \in Procs |-> <<>>]

FnStart(t) ==
  /\ fnText = t
  /\ fnCalls = {}
  /\ fnCategorized = EmptyCategorized
  /\ fnActions = <<>>
  /\ fnEntry = <<>>

\* ------------------------------------------------------------------------
\* Function level: each function applied to every input
\* ------------------------------------------------------------------------

InitFn == MainStart /\ \E t \in Inputs : FnStart(t)

CallCategorize ==
  /\ fnCalls = {}
  /\ fnCategorized' = categorize_thoughts(fnText)
  /\ fnCalls' = fnCalls \cup {"categorize"}
  /\ UNCHANGED <<now, mainVars, fnText, fnActions, fnEntry>>

CallExtract ==
  /\ fnCalls = {"categorize"}
  /\ fnActions' = extract_action_items(fnText)
  /\ fnCalls' = fnCalls \cup {"extract"}
  /\ UNCHANGED <<now, mainVars, fnText, fnCategorized, fnEntry>>

CallGenerate ==
  /\ fnCalls = {"categorize", "extract"}
  /\ fnEntry' = generate_dump_entry(fnText, fnCategorized, fnActions, now)
  /\ fnCalls' = fnCalls \cup {"generate"}
  /\ UNCHANGED <<now, mainVars, fnText, fnCategorized, fnActions>>

NextFn == CallCategorize \/ CallExtract \/ CallGenerate

SpecFn == InitFn /\ [][NextFn]_vars

\* ------------------------------------------------------------------------
\* main, one step at a time; p is one invocation of the script
\* ------------------------------------------------------------------------

Init == MainStart /\ FnStart(<<>>)

BlankNoStrip(t) == t = <<>>

\* not text.strip()
Blank(t) == Strip(t) = <<>>

Took(p, step) == trace' = [trace EXCEPT ![p] = Append(@, step)]

Printed(p, out) == stdout' = [stdout EXCEPT ![p] = @ \o out]

\* the banner is printed
Start(p) ==
  /\ pc[p] = "start"
  /\ pc' = [pc EXCEPT ![p] = "read"]
  /\ startTime' = [startTime EXCEPT ![p] = now]
  /\ Printed(p, << <<"banner">> >>)
  /\ UNCHANGED <<now, text, categorized, actions, entry, today, filename, dirExists,
                 files, trace, fnVars>>

\* Path(sys.argv[1]).read_text() or sys.stdin.read() returns t
ReadInput(p) ==
  /\ pc[p] = "read"
  /\ \E t \in MainInputs : text' = [text EXCEPT ![p] = t]
  /\ pc' = [pc EXCEPT ![p] = "check"]
  /\ Took(p, "read")
  /\ UNCHANGED <<now, categorized, actions, entry, today, filename, dirExists,
                 files, stdout, startTime, fnVars>>

\* sys.stdin.read() raises EOFError: the handler sets text to ""
ReadStdinEOF(p) ==
  /\ pc[p] = "read"
  /\ text' = [text EXCEPT ![p] = <<>>]
  /\ pc' = [pc EXCEPT ![p] = "check"]
  /\ Took(p, "read")
  /\ UNCHANGED <<now, categorized, actions, entry, today, filename, dirExists,
                 files, stdout, startTime, fnVars>>

\* the read raises any other error (missing file, permission denied):
\* nothing catches it and the run ends
ReadFail(p) ==
  /\ pc[p] = "read"
  /\ pc' = [pc EXCEPT ![p] = "failed"]
  /\ Took(p, "read_failed")
  /\ UNCHANGED <<now, text, categorized, actions, entry, today, filename, dirExists,
                 files, stdout, startTime, fnVars>>

CheckEmpty(p) ==
  /\ pc[p] = "check"
  /\ IF Blank(text[p])
     THEN pc' = [pc EXCEPT ![p] = "done"] /\ Printed(p, << <<"No content provided.">> >>)
     ELSE pc' = [pc EXCEPT ![p] = "process"] /\ Printed(p, << <<"Processing...">> >>)
  /\ UNCHANGED <<now, text, categorized, actions, entry, today, filename, dirExists,
                 files, startTime, trace, fnVars>>

Process(p) ==
  /\ pc[p] = "process"
  /\ categorized' = [categorized EXCEPT ![p] = categorize_thoughts(text[p])]
  /\ actions' = [actions EXCEPT ![p] = extract_action_items(text[p])]
  /\ pc' = [pc EXCEPT ![p] = "render"]
  /\ Took(p, "process")
  /\ UNCHANGED <<now, text, entry, today, filename, dirExists, files, stdout,
                 startTime, fnVars>>

Render(p) ==
  /\ pc[p] = "render"
  /\ entry' = [entry EXCEPT ![p] = generate_dump_entry(text[p], categorized[p], actions[p], now)]
  /\ pc' = [pc EXCEPT ![p] = "mkdir"]
  /\ Took(p, "render")
  /\ UNCHANGED <<now, text, categorized, actions, today, filename, dirExists, files,
                 stdout, startTime, fnVars>>

\* dump_dir.mkdir(parents=True, exist_ok=True)
Mkdir(p) ==
  /\ pc[p] = "mkdir"
  /\ dirExists' = TRUE
  /\ pc' = [pc EXCEPT ![p] = "name"]
  /\ Took(p, "mkdir")
  /\ UNCHANGED <<now, text, categorized, actions, entry, today, filename, files,
                 stdout, startTime, fnVars>>

MkdirFail(p) ==
  /\ pc[p] = "mkdir"
  /\ pc' = [pc EXCEPT ![p] = "failed"]
  /\ Took(p, "mkdir_failed")
  /\ UNCHANGED <<now, text, categorized, actions, entry, today, filename, dirExists,
                 files, stdout, startTime, fnVars>>

\* today = datetime.now(); filename = dump_dir / today.strftime(...)
NameFile(p) ==
  /\ pc[p] = "name"
  /\ today' = [today EXCEPT ![p] = now]
  /\ filename' = [filename EXCEPT ![p] = StrftimeFile(now)]
  /\ pc' = [pc EXCEPT ![p] = "write"]
  /\ UNCHANGED <<now, text, categorized, actions, entry, dirExists, files, stdout,
                 startTime, trace, fnVars>>

PutFile(name, content) ==
  [n \in (DOMAIN files) \cup {name} |-> IF n = name THEN content ELSE files[n]]

\* filename.write_text(entry): the file is opened for writing, which
\* truncates it, and the whole entry is written
WriteFile(p) ==
  /\ pc[p] = "write"
  /\ files' = PutFile(filename[p], entry[p])
  /\ pc' = [pc EXCEPT ![p] = "summary"]
  /\ Took(p, "write")
  /\ UNCHANGED <<now, text, categorized, actions, entry, today, filename, dirExists,
                 stdout, startTime, fnVars>>

WriteFailSwallowed(p) ==
  /\ pc[p] = "write"
  /\ UNCHANGED files
  /\ pc' = [pc EXCEPT ![p] = "summary"]
  /\ Took(p, "write_failed")
  /\ UNCHANGED <<now, text, categorized, actions, entry, today, filename, dirExists,
                 stdout, startTime, fnVars>>

\* write_text raises: either the open fails and the directory is as it was,
\* or the write fails after the open has created or truncated the file
WriteFail(p) ==
  /\ pc[p] = "write"
  /\ \/ UNCHANGED files
     \/ files' = PutFile(filename[p], <<>>)
  /\ pc' = [pc EXCEPT ![p] = "failed"]
  /\ Took(p, "write_failed")
  /\ UNCHANGED <<now, text, categorized, actions, entry, today, filename, dirExists,
                 stdout, startTime, fnVars>>

\* the counts of the summary: the total, then each non-empty category in the
\* order of the mapping, then the action items if there are any
SummaryOf(cz, acts) ==
  << <<"total", Len(Flatten([i \in 1..Len(CATEGORIES) |-> cz[CATEGORIES[i]]]))>> >>
  \o SelectSeq([i \in 1..Len(CATEGORIES) |-> <<CATEGORIES[i], Len(cz[CATEGORIES[i]])>>],
               LAMBDA c : c[2] > 0)
  \o (IF Len(acts) > 0 THEN << <<"actions", Len(acts)>> >> ELSE <<>>)

PrintSummary(p) ==
  /\ pc[p] = "summary"
  /\ Printed(p, << <<"saved", filename[p]>> >> \o SummaryOf(categorized[p], actions[p]))
  /\ pc' = [pc EXCEPT ![p] = "done"]
  /\ Took(p, "summary")
  /\ UNCHANGED <<now, text, categorized, actions, entry, today, filename, dirExists,
                 files, startTime, fnVars>>

\* a minute passes
Tick ==
  /\ now < ClockStart + MaxClock
  /\ now' = now + 1
  /\ UNCHANGED <<mainVars, fnVars>>

Next ==
  \/ Tick
  \/ \E p \in Procs :
       \/ Start(p)
       \/ ReadInput(p)
       \/ ReadStdinEOF(p)
       \/ ReadFail(p)
       \/ CheckEmpty(p)
       \/ Process(p)
       \/ Render(p)
       \/ Mkdir(p)
       \/ MkdirFail(p)
       \/ NameFile(p)
       \/ WriteFile(p)
       \/ WriteFail(p)
       \/ PrintSummary(p)

Spec == Init /\ [][Next]_vars

\* ------------------------------------------------------------------------
\* Properties
\* ------------------------------------------------------------------------

\* the fragments of a text: the trimmed, non-empty pieces of the split
FragmentsOf(t) == {Strip(ReSplit(t)[i]) : i \in 1..Len(ReSplit(t))} \ {<<>>}

\* str.split("\n"): the lines of a text
RECURSIVE SplitLines(_)
SplitLines(s) ==
  LET nl == {i \in 1..Len(s) : s[i] = "\n"}
  IN  IF nl = {} THEN <<s>>
      ELSE <<SubSeq(s, 1, MinOf(nl) - 1)>> \o SplitLines(SubSeq(s, MinOf(nl) + 1, Len(s)))

Fence == <<"BACKTICK", "BACKTICK", "BACKTICK">>

\* C1: once categorize_thoughts has run on a text, every fragment of the text
\* is a member of the list of exactly one of the five categories.
C1_EachFragmentInExactlyOneCategory ==
  "categorize" \in fnCalls =>
    \A f \in FragmentsOf(fnText) :
      Cardinality({c \in CategorySet : InSeq(f, fnCategorized[c])}) = 1

\* a text with two fragments, one of which matches the project rule and
\* the question rule at once
C1_Witness ==
  /\ "categorize" \in fnCalls
  /\ Cardinality(FragmentsOf(fnText)) >= 2
  /\ \E f \in FragmentsOf(fnText) :
       HasAny(Lower(f), ProjectWords) /\ Contains(f, <<"?">>)

\* C2: no category list returned by categorize_thoughts, the list of the
\* fallback category random included, holds the same fragment twice.
C2_NoFragmentTwiceInAnyCategory ==
  "categorize" \in fnCalls =>
    \A c \in CategorySet :
      \A i, j \in 1..Len(fnCategorized[c]) :
        i # j => fnCategorized[c][i] # fnCategorized[c][j]

\* C3: a fragment is listed under the first rule that matches it, in the
\* order projects, questions, ideas, resources, random, the tests being
\* substring tests on the lower-cased fragment; "should I build an app?" is a
\* project and "went for a walk" is random.
C3_FirstMatchingRuleWins ==
  "categorize" \in fnCalls =>
    /\ \A f \in FragmentsOf(fnText) :
         LET low == Lower(f)
             isProject == \E w \in ProjectWords : Contains(low, w)
             isQuestion == InSeq("?", f) \/ \E w \in QuestionWords : Contains(low, w)
             isIdea == \E w \in IdeaWords : Contains(low, w)
             isResource == \E w \in ResourceWords : Contains(low, w)
             first == IF isProject THEN "projects"
                      ELSE IF isQuestion THEN "questions"
                      ELSE IF isIdea THEN "ideas"
                      ELSE IF isResource THEN "resources"
                      ELSE "random"
         IN  \A c \in CategorySet : InSeq(f, fnCategorized[c]) <=> c = first
    /\ fnText = ExamplePriority =>
         fnCategorized = [EmptyCategorized EXCEPT !["projects"] = <<ExamplePriority>>]
    /\ fnText = ExampleRandom =>
         fnCategorized = [EmptyCategorized EXCEPT !["random"] = <<ExampleRandom>>]

\* a fragment in mixed case that holds a project keyword, a question keyword
\* and a question mark, listed under projects
C3_Witness ==
  /\ "categorize" \in fnCalls
  /\ fnText = <<"S", "h", "o", "u", "l", "d", "b", "u", "i", "l", "d", "?">>
  /\ fnCategorized["projects"] = <<fnText>>

\* C9: every string in a category list is non-empty, starts and ends with a
\* character that is not whitespace, and holds no newline, bullet or hyphen;
\* the empty text gives five empty lists.
C9_FragmentsAreTrimmedPieces ==
  "categorize" \in fnCalls =>
    /\ \A c \in CategorySet :
         \A i \in 1..Len(fnCategorized[c]) :
           LET f == fnCategorized[c][i]
           IN  /\ Len(f) > 0
               /\ f[1] \notin {" ", "\t", "\n", "\r", "\f"}
               /\ f[Len(f)] \notin {" ", "\t", "\n", "\r", "\f"}
               /\ \A k \in 1..Len(f) : f[k] \notin {"\n", "BULLET", "-"}
    /\ fnText = <<>> => \A c \in CategorySet : fnCategorized[c] = <<>>

\* a text that starts and ends with a separator, has runs of separators with
\* blanks between them, and fragments with blanks around them
C9_Witness ==
  /\ "categorize" \in fnCalls
  /\ fnText = ExampleBullets
  /\ fnCategorized["resources"] = <<<<"R", "e", "a", "d", " ", "a", " ", "B", "O", "O", "K">>>>
  /\ fnCategorized["random"] = <<<<"w", "a", "l", "k", ",", " ", "t", "h", "e", "n", " ", "r", "e", "s", "t">>>>

\* C6: extract_action_items returns the trimmed group of every match of
\* pattern A, then of every match of pattern B; the matches of a pattern are
\* the candidates (a keyword followed by a capturable character) that no
\* earlier chosen match of that pattern covers, from left to right; a group
\* is kept when its trimmed length exceeds 3, and equal groups are all kept.
C6_ActionItemsInPatternThenScanOrder ==
  "extract" \in fnCalls =>
    LET n == Len(fnText)
        low == Lower(fnText)
        Expected(kws) ==
          LET From(i) == CaptureStart(fnText, KeywordEnd(kws, low, i))
              To(i) == CaptureEnd(fnText, From(i))
              Stop(i) == IF To(i) < n THEN To(i) + 1 ELSE To(i)
              Group(i) == Strip(SubSeq(fnText, From(i), To(i)))
              Cand == {i \in 1..n : KeywordEnd(kws, low, i) # 0 /\ From(i) # 0}
              Chosen == CHOOSE S \in SUBSET Cand :
                          \A i \in Cand :
                            i \in S <=> ~(\E j \in S : j < i /\ i <= Stop(j))
              Kept == {i \in Chosen : Len(Group(i)) > 3}
              Nth(k) == CHOOSE i \in Kept : Cardinality({j \in Kept : j < i}) = k - 1
          IN  [k \in 1..Cardinality(Kept) |-> Group(Nth(k))]
    IN  /\ fnActions = Expected(KeywordsA) \o Expected(KeywordsB)
        /\ fnText = ExampleActions => fnActions = <<<<"c", "a", "l", "l", " ", "B", "o", "b">>, <<"e", "m", "a", "i", "l", " ", "A", "l", "i", "c", "e">>>>

\* pattern A matches twice and pattern B once, all three with the same group
C6_Witness ==
  /\ "extract" \in fnCalls
  /\ fnText = ExampleRepeatedAction
  /\ fnActions = <<<<"w", "a", "l", "k", " ", "f", "a", "r">>, <<"w", "a", "l", "k", " ", "f", "a", "r">>, <<"w", "a", "l", "k", " ", "f", "a", "r">>>>

\* C7: when no line of the text is a fence, the lines of the report between
\* the first fence line and the next one, joined by newlines, are the text.
C7_RawTextRoundTrip ==
  ("generate" \in fnCalls /\ ~InSeq(Fence, SplitLines(fnText))) =>
    LET lines == SplitLines(fnEntry)
        open == MinOf({i \in 1..Len(lines) : lines[i] = Fence})
        close == MinOf({i \in (open + 1)..Len(lines) : lines[i] = Fence})
    IN  Join(SubSeq(lines, open + 1, close - 1), <<"\n">>) = fnText

\* a text of several lines that starts with a blank, ends with a newline and
\* holds backticks that are not a fence line
C7_Witness ==
  /\ "generate" \in fnCalls
  /\ fnText = <<" ", "BACKTICK", "BACKTICK", "BACKTICK", "\n">>

\* C8: after the raw block, the report holds the heading of the categorized
\* section, then one subsection per non-empty category in the order Ideas,
\* Questions, Projects, Resources, Random with its fragments as bullets in
\* list order, then the action-item section if and only if there are action
\* items, as unchecked boxes in extraction order.
C8_SectionsInFixedOrder ==
  "generate" \in fnCalls =>
    LET lines == SplitLines(fnEntry)
        skip == 7 + Len(SplitLines(fnText))
        Section(title, items) ==
          IF items = <<>> THEN <<>>
          ELSE <<<<"#", "#", "#", " ">> \o title>>
                 \o [k \in 1..Len(items) |-> <<"-", " ">> \o items[k]]
                 \o << <<>> >>
        Boxes ==
          IF fnActions = <<>> THEN <<>>
          ELSE << <<"#", "#", " ", "ZAP", " ", "P", "o", "t", "e", "n", "t", "i", "a", "l", " ", "A", "c", "t", "i", "o", "n", " ", "I", "t", "e", "m", "s">>, <<>> >>
                 \o [k \in 1..Len(fnActions) |-> <<"-", " ", "[", " ", "]", " ">> \o fnActions[k]]
                 \o << <<>> >>
    IN  SubSeq(lines, skip + 1, Len(lines) - 3)
          = << <<"#", "#", " ", "LABEL", " ", "C", "a", "t", "e", "g", "o", "r", "i", "z", "e", "d">>, <<>> >>
              \o Section(<<"I", "d", "e", "a", "s">>, fnCategorized["ideas"])
              \o Section(<<"Q", "u", "e", "s", "t", "i", "o", "n", "s">>, fnCategorized["questions"])
              \o Section(<<"P", "r", "o", "j", "e", "c", "t", "s">>, fnCategorized["projects"])
              \o Section(<<"R", "e", "s", "o", "u", "r", "c", "e", "s">>, fnCategorized["resources"])
              \o Section(<<"R", "a", "n", "d", "o", "m">>, fnCategorized["random"])
              \o Boxes

\* a report with three subsections, one of two bullets, and action items
C8_Witness ==
  /\ "generate" \in fnCalls
  /\ fnText = ExampleReport
  /\ Len(fnActions) = 2
  /\ Len(fnCategorized["projects"]) = 2
  /\ Cardinality({c \in CategorySet : fnCategorized[c] # <<>>}) = 3

\* C4: an invocation whose input is empty or all whitespace stops at the
\* check: it does not categorize, extract or render, computes no file name,
\* creates no directory and writes no file, and prints the message.
C4_BlankInputStopsBeforeProcessing ==
  \A p \in Procs :
    (InSeq("read", trace[p]) /\ Strip(text[p]) = <<>>) =>
      /\ trace[p] = <<"read">>
      /\ pc[p] \in {"check", "done"}
      /\ categorized[p] = EmptyCategorized
      /\ actions[p] = <<>>
      /\ entry[p] = <<>>
      /\ filename[p] = <<>>
      /\ pc[p] = "done" => Len(stdout[p]) = 2 /\ stdout[p][2][1] = "No content provided."
      /\ (\A q \in Procs \ {p} : ~InSeq("mkdir", trace[q])) => ~dirExists
      /\ (\A q \in Procs \ {p} : ~InSeq("write", trace[q]) /\ ~InSeq("write_failed", trace[q]))
           => files = <<>>

\* an invocation that read blanks and a newline and has returned
C4_Witness ==
  \E p \in Procs : pc[p] = "done" /\ text[p] = <<" ", "\n">>

\* C5 as stated: two invocations have the same file name only if they
\* started in the same minute.
C5_SameNameOnlyIfStartedInSameMinute ==
  \A p, q \in Procs :
    (p # q /\ filename[p] # <<>> /\ filename[p] = filename[q]) =>
      startTime[p] = startTime[q]

\* C5 amended: two invocations have the same file name only if the clock
\* readings they made their file names of are in the same minute; and a
\* write that succeeds leaves the file holding exactly the writer's entry,
\* whatever it held before.
C5_SameNameOnlyIfNamedInSameMinute ==
  /\ [](\A p, q \in Procs :
          (p # q /\ filename[p] # <<>> /\ filename[p] = filename[q]) =>
            today[p] = today[q])
  /\ [][\A p \in Procs :
          (pc[p] = "write" /\ pc'[p] = "summary") =>
            /\ filename[p] \in DOMAIN files'
            /\ files'[filename[p]] = entry[p]
            /\ trace'[p][Len(trace'[p])] = "write"
            /\ stdout'[p] = stdout[p]]_vars

\* two invocations that started in different minutes have written different
\* entries to the same file, and the file holds one of them
C5_Witness ==
  \E p, q \in Procs :
    /\ p # q
    /\ pc[p] = "done" /\ pc[q] = "done"
    /\ InSeq("write", trace[p]) /\ InSeq("write", trace[q])
    /\ filename[p] = filename[q]
    /\ startTime[p] # startTime[q]
    /\ entry[p] # entry[q]
    /\ files[filename[p]] = entry[q]

\* C10: the steps of an invocation are a prefix of read, process, render,
\* mkdir, write, summary; a step that fails is the last one and is not
\* repeated; there is at most one read and one write; after a failed read
\* the invocation creates no directory and writes no file, and after a
\* failed write it prints neither the success line nor the summary.
C10_StepsInOrderAndFailuresEndTheRun ==
  \A p \in Procs :
    LET tr == trace[p]
        Failures == {"read_failed", "mkdir_failed", "write_failed"}
        Order == <<"read", "process", "render", "mkdir", "write", "summary">>
        good == SelectSeq(tr, LAMBDA s : s \notin Failures)
    IN  /\ Len(good) <= Len(Order)
        /\ good = SubSeq(Order, 1, Len(good))
        /\ \A i \in 1..Len(tr) : tr[i] \in Failures => (i = Len(tr) /\ pc[p] = "failed")
        /\ Cardinality({i \in 1..Len(tr) : tr[i] \in {"read", "read_failed"}}) <= 1
        /\ Cardinality({i \in 1..Len(tr) : tr[i] \in {"write", "write_failed"}}) <= 1
        /\ InSeq("read_failed", tr) =>
             /\ tr = <<"read_failed">>
             /\ filename[p] = <<>>
             /\ (\A q \in Procs \ {p} : ~InSeq("mkdir", trace[q])) => ~dirExists
             /\ (\A q \in Procs \ {p} :
                   ~InSeq("write", trace[q]) /\ ~InSeq("write_failed", trace[q]))
                  => files = <<>>
        /\ InSeq("write_failed", tr) =>
             \A i \in 1..Len(stdout[p]) : stdout[p][i][1] \in {"banner", "Processing..."}

\* one invocation has run to the summary and the other has stopped at a
\* failed write
C10_Witness ==
  \E p, q \in Procs :
    /\ trace[p] = <<"read", "process", "render", "mkdir", "write", "summary">>
    /\ pc[p] = "done"
    /\ pc[q] = "failed"
    /\ trace[q][Len(trace[q])] = "write_failed"

====
